---- MODULE Spec2Model ----
(* Model of gdb/symfile-debug.c: the per-objfile logging shadow of the     *)
(* sym_fns table, its install / uninstall procedures, the "set debug       *)
(* symfile" command and the objfile_set_sym_fns mutator.                   *)
EXTENDS Integers, Sequences, FiniteSets, TLC

(* ------------------------------------------------------------------ *)
(* Bounds                                                               *)
(* ------------------------------------------------------------------ *)
NumObjfiles == 2
NumPspaces == 2
NumTables == 2
ExtraAddrs == 0
MaxArg == 1
MaxCallObjfiles == 1

Objfiles == 1..NumObjfiles
program_spaces == 1..NumPspaces
RealTables == 1..NumTables
(* Addresses operator new can return.  Addresses are interchangeable,   *)
(* so the data of each objfile is given a pool of its own of            *)
(* 1 + ExtraAddrs addresses: a reinstall can get the address just freed *)
(* or another one.                                                      *)
Addrs == 1..(NumObjfiles * (ExtraAddrs + 1))
AddrsFor(o) == { a \in Addrs : ((a - 1) \div (ExtraAddrs + 1)) + 1 = o }
Args == 0..MaxArg

(* ------------------------------------------------------------------ *)
(* struct sym_fns: the slots, in declaration order                      *)
(* ------------------------------------------------------------------ *)
SlotList ==
  << "sym_new_init", "sym_init", "sym_read", "sym_finish", "sym_offsets",
     "sym_segments", "sym_read_linetable", "sym_relocate", "sym_probe_fns" >>

Slots == { SlotList[i] : i \in 1..Len(SlotList) }

(* The template of debugging functions, slot by slot. *)
debug_sym_fns ==
  [ sym_new_init       |-> "debug_sym_new_init",
    sym_init           |-> "debug_sym_init",
    sym_read           |-> "debug_sym_read",
    sym_finish         |-> "debug_sym_finish",
    sym_offsets        |-> "debug_sym_offsets",
    sym_segments       |-> "debug_sym_segments",
    sym_read_linetable |-> "debug_sym_read_linetable",
    sym_relocate       |-> "debug_sym_relocate",
    sym_probe_fns      |-> "debug_sym_probe_fns" ]

(* Pointers to sym_fns tables: the null pointer, the address of a static *)
(* table of a symbol reader, or the address of the debug_sf member of an *)
(* allocated debug_sym_fns_data.                                         *)
NullSf == << "null", 0 >>
RealSf(t) == << "real", t >>
DebugSf(a) == << "debug", a >>
SfPtrs == {NullSf} \cup { RealSf(t) : t \in RealTables }
                  \cup { DebugSf(a) : a \in Addrs }

(* A value-initialised sym_fns: every slot is a null pointer. *)
EmptySf == [ s \in Slots |-> "NULL" ]

(* A debug_sym_fns_data as its default member initialisers leave it. *)
FreshData == [ used |-> TRUE, real_sf |-> NullSf, debug_sf |-> EmptySf ]
FreeData == [ used |-> FALSE, real_sf |-> NullSf, debug_sf |-> EmptySf ]

VARIABLES
  debug_symfile,  \* the flag behind "set debug symfile"
  loaded,         \* the objfiles on the lists of the program spaces
  sf,             \* objfile->sf of each objfile
  key,            \* symfile_debug_objfile_data_key: objfile -> address or 0
  heap,           \* the debug_sym_fns_data objects, by address
  fns,            \* contents of the static sym_fns tables: populated slots
  status,         \* "running", "abort" (gdb_assert) or "segv"
  replaced,       \* debug_symfile at each objfile's last objfile_set_sym_fns
  last            \* the operation performed last and what it did

vars == << debug_symfile, loaded, sf, key, heap, fns, status, replaced, last >>

(* The program space an objfile belongs to, and the order in which the  *)
(* nested loops of set_debug_symfile visit the loaded objfiles.          *)
PspaceOf(o) == ((o - 1) % NumPspaces) + 1

RECURSIVE SeqOfSet(_)
SeqOfSet(S) ==
  IF S = {} THEN << >>
  ELSE LET m == CHOOSE x \in S : \A y \in S : x <= y
       IN << m >> \o SeqOfSet(S \ {m})

RECURSIVE WalkFrom(_, _)
WalkFrom(p, ld) ==
  IF p > NumPspaces THEN << >>
  ELSE SeqOfSet({ o \in ld : PspaceOf(o) = p }) \o WalkFrom(p + 1, ld)

(* The walk stopping after the first program space. *)
WalkOrder_first_pspace(ld) == SeqOfSet({ o \in ld : PspaceOf(o) = 1 })

WalkOrder(ld) == WalkFrom(1, ld)

(* ------------------------------------------------------------------ *)
(* The part of the state the procedures below read and write, as a     *)
(* record threaded through them.                                        *)
(* ------------------------------------------------------------------ *)
State ==
  [ debug_symfile |-> debug_symfile, sf |-> sf, key |-> key, heap |-> heap,
    fns |-> fns, status |-> status, allocOk |-> TRUE,
    installs |-> {}, uninstalls |-> {} ]

(* The non-null slots seen when reading through a sym_fns pointer.  A   *)
(* read through the null pointer is undefined: ub is what it yields.    *)
ReadSlots(st, p, ub) ==
  IF p[1] = "real" THEN st.fns[p[2]]
  ELSE IF p[1] = "debug"
       THEN { s \in Slots : st.heap[p[2]].debug_sf[s] # "NULL" }
       ELSE ub.read

(* Outcomes of undefined behaviour on a null sym_fns pointer: the       *)
(* process is killed, or the reads go through and find slots that are   *)
(* not null.                                                            *)
UBReads == { Slots }
UBOutcomes ==
  { [ segv |-> TRUE, read |-> {} ] }
    \cup { [ segv |-> FALSE, read |-> r ] : r \in UBReads }

symfile_debug_installed(st, objfile) ==
  st.sf[objfile] # NullSf /\ st.key[objfile] # 0

(* COPY_SF_PTR without its test of the real slot. *)
COPY_SF_PTR_unconditional(from, to, name, func) ==
  [to EXCEPT ![name] = func]

COPY_SF_PTR(from, to, name, func) ==
  IF name \in from THEN [to EXCEPT ![name] = func] ELSE to

(* The debug_sf built by lines 530-540 from the slots of real_sf. *)
BuildDebugSf(from) ==
  LET d1 == COPY_SF_PTR(from, EmptySf, "sym_new_init", debug_sym_fns.sym_new_init)
      d2 == COPY_SF_PTR(from, d1, "sym_init", debug_sym_fns.sym_init)
      d3 == COPY_SF_PTR(from, d2, "sym_read", debug_sym_fns.sym_read)
      d4 == COPY_SF_PTR(from, d3, "sym_finish", debug_sym_fns.sym_finish)
      d5 == COPY_SF_PTR(from, d4, "sym_offsets", debug_sym_fns.sym_offsets)
      d6 == COPY_SF_PTR(from, d5, "sym_segments", debug_sym_fns.sym_segments)
      d7 == COPY_SF_PTR(from, d6, "sym_read_linetable",
                        debug_sym_fns.sym_read_linetable)
      d8 == COPY_SF_PTR(from, d7, "sym_relocate", debug_sym_fns.sym_relocate)
  IN IF "sym_probe_fns" \in from
     THEN [d8 EXCEPT !["sym_probe_fns"] = debug_sym_fns.sym_probe_fns]
     ELSE d8

(* install_symfile_debug_logging without the store to real_sf. *)
install_without_real_sf(st, objfile, a, ub) ==
  IF st.status # "running" THEN st
  ELSE IF symfile_debug_installed(st, objfile)
  THEN [st EXCEPT !.status = "abort",
                  !.installs = @ \cup { << objfile, st.sf[objfile] >> }]
  ELSE
    LET real_sf == st.sf[objfile]
        st1 == [st EXCEPT !.installs = @ \cup { << objfile, real_sf >> }]
    IN IF st.heap[a].used THEN [st1 EXCEPT !.allocOk = FALSE]
       ELSE IF real_sf = NullSf /\ ub.segv
       THEN [st1 EXCEPT !.status = "segv"]
       ELSE
         LET from == ReadSlots(st, real_sf, ub)
             debug_data == [FreshData EXCEPT !.debug_sf = BuildDebugSf(from)]
         IN [st1 EXCEPT !.heap[a] = debug_data,
                        !.key[objfile] = a,
                        !.sf[objfile] = DebugSf(a)]

(* install_symfile_debug_logging returning at once, without a word,    *)
(* when the debug versions are already installed.                       *)
install_silent_when_installed(st, objfile, a, ub) ==
  IF st.status # "running" THEN st
  ELSE IF symfile_debug_installed(st, objfile)
  THEN [st EXCEPT !.installs = @ \cup { << objfile, st.sf[objfile] >> }]
  ELSE
    LET real_sf == st.sf[objfile]
        st1 == [st EXCEPT !.installs = @ \cup { << objfile, real_sf >> }]
    IN IF st.heap[a].used THEN [st1 EXCEPT !.allocOk = FALSE]
       ELSE IF real_sf = NullSf /\ ub.segv
       THEN [st1 EXCEPT !.status = "segv"]
       ELSE
         LET from == ReadSlots(st, real_sf, ub)
             debug_data == [FreshData EXCEPT !.debug_sf = BuildDebugSf(from),
                                             !.real_sf = real_sf]
         IN [st1 EXCEPT !.heap[a] = debug_data,
                        !.key[objfile] = a,
                        !.sf[objfile] = DebugSf(a)]

(* install_symfile_debug_logging (objfile).  a is the address operator  *)
(* new returns, ub the outcome of reading through a null real_sf.       *)
install_symfile_debug_logging(st, objfile, a, ub) ==
  IF st.status # "running" THEN st
  ELSE IF symfile_debug_installed(st, objfile)
  THEN [st EXCEPT !.status = "abort",
                  !.installs = @ \cup { << objfile, st.sf[objfile] >> }]
  ELSE
    LET real_sf == st.sf[objfile]
        st1 == [st EXCEPT !.installs = @ \cup { << objfile, real_sf >> }]
    IN IF st.heap[a].used THEN [st1 EXCEPT !.allocOk = FALSE]
       ELSE IF real_sf = NullSf /\ ub.segv
       THEN [st1 EXCEPT !.status = "segv"]
       ELSE
         LET from == ReadSlots(st, real_sf, ub)
             debug_data == [FreshData EXCEPT !.debug_sf = BuildDebugSf(from),
                                             !.real_sf = real_sf]
         IN [st1 EXCEPT !.heap[a] = debug_data,
                        !.key[objfile] = a,
                        !.sf[objfile] = DebugSf(a)]

(* uninstall_symfile_debug_logging without the clear of the key. *)
uninstall_without_clear(st, objfile) ==
  IF st.status # "running" THEN st
  ELSE IF ~symfile_debug_installed(st, objfile)
  THEN [st EXCEPT !.status = "abort",
                  !.uninstalls = @ \cup { << objfile, st.sf[objfile] >> }]
  ELSE
    LET debug_data == st.key[objfile]
        real_sf == st.heap[debug_data].real_sf
    IN [st EXCEPT !.sf[objfile] = real_sf,
                  !.uninstalls = @ \cup { << objfile, real_sf >> }]

(* uninstall_symfile_debug_logging clearing the key of every objfile. *)
uninstall_clears_every_key(st, objfile) ==
  IF st.status # "running" THEN st
  ELSE IF ~symfile_debug_installed(st, objfile)
  THEN [st EXCEPT !.status = "abort",
                  !.uninstalls = @ \cup { << objfile, st.sf[objfile] >> }]
  ELSE
    LET debug_data == st.key[objfile]
        real_sf == st.heap[debug_data].real_sf
    IN [st EXCEPT !.sf[objfile] = real_sf,
                  !.key = [o \in Objfiles |-> 0],
                  !.heap[debug_data] = FreeData,
                  !.uninstalls = @ \cup { << objfile, real_sf >> }]

(* uninstall_symfile_debug_logging (objfile) *)
uninstall_symfile_debug_logging(st, objfile) ==
  IF st.status # "running" THEN st
  ELSE IF ~symfile_debug_installed(st, objfile)
  THEN [st EXCEPT !.status = "abort",
                  !.uninstalls = @ \cup { << objfile, st.sf[objfile] >> }]
  ELSE
    LET debug_data == st.key[objfile]
        real_sf == st.heap[debug_data].real_sf
    IN [st EXCEPT !.sf[objfile] = real_sf,
                  !.key[objfile] = 0,
                  !.heap[debug_data] = FreeData,
                  !.uninstalls = @ \cup { << objfile, real_sf >> }]

(* objfile_set_sym_fns storing the new table before the uninstall. *)
objfile_set_sym_fns_store_first(st, objfile, newsf, a, ub) ==
  LET st0 == [st EXCEPT !.sf[objfile] = newsf]
      st1 == IF symfile_debug_installed(st0, objfile)
             THEN IF ~st0.debug_symfile
                  THEN [st0 EXCEPT !.status = "abort"]
                  ELSE uninstall_symfile_debug_logging(st0, objfile)
             ELSE st0
  IN IF st1.status = "running" /\ st1.debug_symfile
     THEN install_symfile_debug_logging(st1, objfile, a, ub)
     ELSE st1

(* objfile_set_sym_fns without the reinstall at its end. *)
objfile_set_sym_fns_no_reinstall(st, objfile, newsf, a, ub) ==
  LET st1 == IF symfile_debug_installed(st, objfile)
             THEN IF ~st.debug_symfile
                  THEN [st EXCEPT !.status = "abort"]
                  ELSE uninstall_symfile_debug_logging(st, objfile)
             ELSE st
  IN IF st1.status # "running" THEN st1
     ELSE [st1 EXCEPT !.sf[objfile] = newsf]

(* objfile_set_sym_fns leaving installed debug versions where they are. *)
objfile_set_sym_fns_no_uninstall(st, objfile, newsf, a, ub) ==
  LET st2 == [st EXCEPT !.sf[objfile] = newsf]
  IN IF st2.debug_symfile /\ ~symfile_debug_installed(st2, objfile)
     THEN install_symfile_debug_logging(st2, objfile, a, ub)
     ELSE st2

(* objfile_set_sym_fns installing whatever debug_symfile says. *)
objfile_set_sym_fns_always_install(st, objfile, newsf, a, ub) ==
  LET st1 == IF symfile_debug_installed(st, objfile)
             THEN IF ~st.debug_symfile
                  THEN [st EXCEPT !.status = "abort"]
                  ELSE uninstall_symfile_debug_logging(st, objfile)
             ELSE st
      st2 == IF st1.status # "running" THEN st1
             ELSE [st1 EXCEPT !.sf[objfile] = newsf]
  IN IF st2.status = "running"
     THEN install_symfile_debug_logging(st2, objfile, a, ub)
     ELSE st2

(* objfile_set_sym_fns (objfile, sf) *)
objfile_set_sym_fns(st, objfile, newsf, a, ub) ==
  LET st1 == IF symfile_debug_installed(st, objfile)
             THEN IF ~st.debug_symfile
                  THEN [st EXCEPT !.status = "abort"]
                  ELSE uninstall_symfile_debug_logging(st, objfile)
             ELSE st
      st2 == IF st1.status # "running" THEN st1
             ELSE [st1 EXCEPT !.sf[objfile] = newsf]
  IN IF st2.status = "running" /\ st2.debug_symfile
     THEN install_symfile_debug_logging(st2, objfile, a, ub)
     ELSE st2

(* The loop body without the symfile_debug_installed test on enabling. *)
set_debug_symfile_one_unchecked(st, objfile, alloc, ub) ==
  IF st.status # "running" THEN st
  ELSE IF st.debug_symfile
  THEN install_symfile_debug_logging(st, objfile,
         IF objfile \in DOMAIN alloc THEN alloc[objfile]
         ELSE CHOOSE a \in AddrsFor(objfile) : TRUE,
         IF objfile \in DOMAIN ub THEN ub[objfile]
         ELSE [ segv |-> FALSE, read |-> {} ])
  ELSE IF symfile_debug_installed(st, objfile)
       THEN uninstall_symfile_debug_logging(st, objfile)
       ELSE st

(* The loop body leaving the debug versions in place on disabling. *)
set_debug_symfile_one_keeps_installed(st, objfile, alloc, ub) ==
  IF st.status # "running" THEN st
  ELSE IF st.debug_symfile
  THEN IF ~symfile_debug_installed(st, objfile)
       THEN install_symfile_debug_logging(st, objfile, alloc[objfile],
                                          ub[objfile])
       ELSE st
  ELSE st

(* The body of the loops of set_debug_symfile for one objfile. *)
set_debug_symfile_one(st, objfile, alloc, ub) ==
  IF st.status # "running" THEN st
  ELSE IF st.debug_symfile
  THEN IF ~symfile_debug_installed(st, objfile)
       THEN install_symfile_debug_logging(st, objfile, alloc[objfile],
                                          ub[objfile])
       ELSE st
  ELSE IF symfile_debug_installed(st, objfile)
       THEN uninstall_symfile_debug_logging(st, objfile)
       ELSE st

(* set_debug_symfile: the loops over program_spaces and their objfiles. *)
RECURSIVE set_debug_symfile_walk(_, _, _, _)
set_debug_symfile_walk(st, order, alloc, ub) ==
  IF order = << >> THEN st
  ELSE set_debug_symfile_walk(
         set_debug_symfile_one(st, Head(order), alloc, ub),
         Tail(order), alloc, ub)

set_debug_symfile(st, ld, alloc, ub) ==
  set_debug_symfile_walk(st, WalkOrder(ld), alloc, ub)

(* ------------------------------------------------------------------ *)
(* Calls through a sym_fns table.  A call yields the sequence of events *)
(* it causes (lines on gdb_stdlog, invocations of real functions) and   *)
(* its outcome: "return" with a value, "throw", "abort" or "segv".      *)
(* ------------------------------------------------------------------ *)
ValueSlots == { "sym_relocate", "sym_probe_fns" }
ArgSlots == { "sym_read", "sym_offsets", "sym_relocate" }
ArgsOf(s) == IF s \in ArgSlots THEN Args ELSE { 0 }

Outcome(kind, val) == [ kind |-> kind, val |-> val ]
Effect(events, outcome) == [ events |-> events, outcome |-> outcome ]

(* fprintf_filtered (gdb_stdlog, ...): the line names the operation,    *)
(* the objfile, the arguments and, where printed, the result.           *)
fprintf_filtered(s, objfile, arg, res) ==
  [ kind |-> "log", slot |-> s, table |-> NullSf, objfile |-> objfile,
    arg |-> arg, res |-> res ]

(* The function in slot s of the static table real, called with         *)
(* (objfile, arg): it runs once and returns its value or throws.        *)
RealResult(real, s, objfile, arg) ==
  IF s \in ValueSlots THEN << real[2], objfile, arg >> ELSE << >>

RealCall(real, s, objfile, arg, throws) ==
  Effect(<< [ kind |-> "real", slot |-> s, table |-> real,
              objfile |-> objfile, arg |-> arg, res |-> << >> ] >>,
         IF throws THEN Outcome("throw", << >>)
         ELSE Outcome("return", RealResult(real, s, objfile, arg)))

(* Undefined behaviour in a call (null debug_data, null real_sf or a    *)
(* null function pointer): the process is killed, or control comes back *)
(* with an indeterminate value.                                         *)
UBCalls == { "segv", "garbage" }
UBCall(ub) ==
  IF ub = "segv" THEN Effect(<< >>, Outcome("segv", << >>))
  ELSE Effect(<< >>, Outcome("return", << 0, 0, 0 >>))

(* debug_data->real_sf->s (objfile, arg), debug_data being what the key *)
(* holds for objfile.                                                   *)
Forward(st, objfile, s, arg, throws, ub) ==
  LET debug_data == st.key[objfile]
  IN IF debug_data = 0 THEN UBCall(ub)
     ELSE LET real_sf == st.heap[debug_data].real_sf
          IN IF real_sf[1] # "real" THEN UBCall(ub)
             ELSE IF s \notin st.fns[real_sf[2]] THEN UBCall(ub)
             ELSE RealCall(real_sf, s, objfile, arg, throws)

(* A proxy that prints its line and then calls the real function. *)
Then(line, f) == Effect(<< line >> \o f.events, f.outcome)

(* A proxy that calls the real function and prints its line, with the   *)
(* result, once the call has returned.                                  *)
After(f, s, objfile, arg) ==
  IF f.outcome.kind = "return"
  THEN Effect(f.events \o << fprintf_filtered(s, objfile, arg, f.outcome.val) >>,
              f.outcome)
  ELSE f

debug_sym_get_probes(st, objfile, arg, throws, ub) ==
  After(Forward(st, objfile, "sym_probe_fns", arg, throws, ub),
        "sym_probe_fns", objfile, arg)

debug_sym_new_init(st, objfile, arg, throws, ub) ==
  Then(fprintf_filtered("sym_new_init", objfile, arg, << >>),
       Forward(st, objfile, "sym_new_init", arg, throws, ub))

debug_sym_init(st, objfile, arg, throws, ub) ==
  Then(fprintf_filtered("sym_init", objfile, arg, << >>),
       Forward(st, objfile, "sym_init", arg, throws, ub))

debug_sym_read(st, objfile, arg, throws, ub) ==
  Then(fprintf_filtered("sym_read", objfile, arg, << >>),
       Forward(st, objfile, "sym_read", arg, throws, ub))

debug_sym_finish(st, objfile, arg, throws, ub) ==
  Then(fprintf_filtered("sym_finish", objfile, arg, << >>),
       Forward(st, objfile, "sym_finish", arg, throws, ub))

debug_sym_offsets(st, objfile, arg, throws, ub) ==
  Then(fprintf_filtered("sym_offsets", objfile, arg, << >>),
       Forward(st, objfile, "sym_offsets", arg, throws, ub))

(* debug_sym_segments as a proxy like the others: line, then forward. *)
debug_sym_segments_forwarding(st, objfile, arg, throws, ub) ==
  Then(fprintf_filtered("sym_segments", objfile, arg, << >>),
       Forward(st, objfile, "sym_segments", arg, throws, ub))

(* gdb_assert_not_reached ("debug_sym_segments called") *)
debug_sym_segments(st, objfile, arg, throws, ub) ==
  Effect(<< >>, Outcome("abort", << >>))

debug_sym_read_linetable(st, objfile, arg, throws, ub) ==
  Then(fprintf_filtered("sym_read_linetable", objfile, arg, << >>),
       Forward(st, objfile, "sym_read_linetable", arg, throws, ub))

(* debug_sym_relocate passing a null buf on. *)
debug_sym_relocate_drops_buf(st, objfile, arg, throws, ub) ==
  After(Forward(st, objfile, "sym_relocate", 0, throws, ub),
        "sym_relocate", objfile, arg)

debug_sym_relocate(st, objfile, arg, throws, ub) ==
  After(Forward(st, objfile, "sym_relocate", arg, throws, ub),
        "sym_relocate", objfile, arg)

(* The function a name of the debug_sym_fns template denotes. *)
DebugFn(name, st, objfile, arg, throws, ub) ==
  CASE name = "debug_sym_new_init" ->
         debug_sym_new_init(st, objfile, arg, throws, ub)
    [] name = "debug_sym_init" ->
         debug_sym_init(st, objfile, arg, throws, ub)
    [] name = "debug_sym_read" ->
         debug_sym_read(st, objfile, arg, throws, ub)
    [] name = "debug_sym_finish" ->
         debug_sym_finish(st, objfile, arg, throws, ub)
    [] name = "debug_sym_offsets" ->
         debug_sym_offsets(st, objfile, arg, throws, ub)
    [] name = "debug_sym_segments" ->
         debug_sym_segments(st, objfile, arg, throws, ub)
    [] name = "debug_sym_read_linetable" ->
         debug_sym_read_linetable(st, objfile, arg, throws, ub)
    [] name = "debug_sym_relocate" ->
         debug_sym_relocate(st, objfile, arg, throws, ub)
    [] name = "debug_sym_probe_fns" ->
         debug_sym_get_probes(st, objfile, arg, throws, ub)

(* Does the table p points at have slot s populated? *)
Populated(st, p, s) ==
  /\ p # NullSf
  /\ s \in ReadSlots(st, p, [ segv |-> FALSE, read |-> {} ])

(* objfile->sf->s (objfile, arg): the call the rest of gdb makes. *)
CallThrough(st, objfile, s, arg, throws, ub) ==
  LET p == st.sf[objfile]
  IN IF p[1] = "real" THEN RealCall(p, s, objfile, arg, throws)
     ELSE DebugFn(st.heap[p[2]].debug_sf[s], st, objfile, arg, throws, ub)

(* ------------------------------------------------------------------ *)
(* The methods of objfile that forward to its quick_symbol_functions    *)
(* object qf.  The fields of the objfile this file only reads, and what *)
(* qf does when called, are the input in of a call:                     *)
(*   in.qf     qf != nullptr                                            *)
(*   in.read   (flags & OBJF_PSYMTABS_READ) != 0                        *)
(*   in.lazy   what qf->can_lazily_read_symbols () returns              *)
(*   in.ret    what the forwarded method returns (0: false or nullptr)  *)
(*   in.found  what the forwarded method stores in *symbol_found_p      *)
(*   in.arg    the argument; for map_symtabs_matching_filename it is    *)
(*             real_path, NullPath being the null pointer               *)
(*   in.throws whether the forwarded method throws                      *)
(*   in.ub     the outcome of handing a null pointer to "%s"            *)
(* ------------------------------------------------------------------ *)
NullPath == 0

BoolQueries == { "has_partial_symbols", "map_symtabs_matching_filename" }
SymtabQueries == { "find_last_source_symtab", "lookup_symbol",
                   "find_pc_sect_compunit_symtab",
                   "find_compunit_symtab_by_address" }
VoidQueries == { "forget_cached_source_info", "print_stats", "dump",
                 "expand_symtabs_for_function", "expand_all_symtabs",
                 "expand_symtabs_with_fullname", "map_matching_symbols",
                 "expand_symtabs_matching", "map_symbol_filenames" }
Queries == BoolQueries \cup SymtabQueries \cup VoidQueries
             \cup { "lookup_global_symbol_language" }

(* What the method q of qf hands back. *)
QfResult(q, in) ==
  IF q \in BoolQueries THEN in.ret # 0
  ELSE IF q \in SymtabQueries THEN in.ret
  ELSE IF q = "lookup_global_symbol_language"
  THEN << IF in.ret = 0 THEN "language_unknown" ELSE "language_c", in.found >>
  ELSE << >>

(* qf->q (this, arg): the method runs once and returns or throws. *)
QfCall(q, objfile, in) ==
  Effect(<< [ kind |-> "qf", slot |-> q, table |-> NullSf,
              objfile |-> objfile, arg |-> in.arg, res |-> << >> ] >>,
         IF in.throws THEN Outcome("throw", << >>)
         ELSE Outcome("return", QfResult(q, in)))

(* if (qf != nullptr) retval = qf->q (...), retval starting as default. *)
QfForward(q, objfile, in, default) ==
  IF in.qf THEN QfCall(q, objfile, in)
  ELSE Effect(<< >>, Outcome("return", default))

(* if (debug_symfile) fprintf_filtered (gdb_stdlog, ...) *)
LogIf(st, line) == IF st.debug_symfile THEN << line >> ELSE << >>

(* The guarded line, then the rest f of the method. *)
LogThen(st, line, f) == Effect(LogIf(st, line) \o f.events, f.outcome)

(* The rest f of the method, then the guarded line with the result. *)
ThenLog(st, f, q, objfile, arg) ==
  IF f.outcome.kind = "return"
  THEN Effect(f.events \o LogIf(st, fprintf_filtered(q, objfile, arg,
                                                     f.outcome.val)),
              f.outcome)
  ELSE f

objfile_has_partial_symbols(st, objfile, in) ==
  LET lazy == [ kind |-> "qf", slot |-> "can_lazily_read_symbols",
                table |-> NullSf, objfile |-> objfile, arg |-> 0,
                res |-> << >> ]
      f == IF ~in.read /\ in.qf
           THEN IF in.lazy
                THEN Effect(<< lazy >>, Outcome("return", TRUE))
                ELSE LET g == QfCall("has_partial_symbols", objfile, in)
                     IN Effect(<< lazy >> \o g.events, g.outcome)
           ELSE QfForward("has_partial_symbols", objfile, in, FALSE)
  IN ThenLog(st, f, "has_partial_symbols", objfile, 0)

objfile_find_last_source_symtab(st, objfile, in) ==
  ThenLog(st,
    LogThen(st, fprintf_filtered("find_last_source_symtab", objfile, 0, << >>),
            QfForward("find_last_source_symtab", objfile, in, 0)),
    "find_last_source_symtab", objfile, 0)

objfile_forget_cached_source_info(st, objfile, in) ==
  LogThen(st, fprintf_filtered("forget_cached_source_info", objfile, 0, << >>),
          QfForward("forget_cached_source_info", objfile, in, << >>))

(* The first line is printed with real_path ? real_path : NULL under    *)
(* "%s": with a null real_path the behaviour of the print is undefined. *)
objfile_map_symtabs_matching_filename(st, objfile, in) ==
  IF st.debug_symfile /\ in.arg = NullPath /\ in.ub = "segv"
  THEN Effect(<< >>, Outcome("segv", << >>))
  ELSE ThenLog(st,
         LogThen(st, fprintf_filtered("map_symtabs_matching_filename",
                                      objfile, in.arg, << >>),
                 QfForward("map_symtabs_matching_filename", objfile, in,
                           FALSE)),
         "map_symtabs_matching_filename", objfile, in.arg)

objfile_lookup_symbol(st, objfile, in) ==
  ThenLog(st,
    LogThen(st, fprintf_filtered("lookup_symbol", objfile, in.arg, << >>),
            QfForward("lookup_symbol", objfile, in, 0)),
    "lookup_symbol", objfile, in.arg)

objfile_print_stats(st, objfile, in) ==
  LogThen(st, fprintf_filtered("print_stats", objfile, in.arg, << >>),
          QfForward("print_stats", objfile, in, << >>))

objfile_dump(st, objfile, in) ==
  LogThen(st, fprintf_filtered("dump", objfile, 0, << >>),
          QfForward("dump", objfile, in, << >>))

objfile_expand_symtabs_for_function(st, objfile, in) ==
  LogThen(st, fprintf_filtered("expand_symtabs_for_function", objfile,
                               in.arg, << >>),
          QfForward("expand_symtabs_for_function", objfile, in, << >>))

objfile_expand_all_symtabs(st, objfile, in) ==
  LogThen(st, fprintf_filtered("expand_all_symtabs", objfile, 0, << >>),
          QfForward("expand_all_symtabs", objfile, in, << >>))

objfile_expand_symtabs_with_fullname(st, objfile, in) ==
  LogThen(st, fprintf_filtered("expand_symtabs_with_fullname", objfile,
                               in.arg, << >>),
          QfForward("expand_symtabs_with_fullname", objfile, in, << >>))

objfile_map_matching_symbols(st, objfile, in) ==
  LogThen(st, fprintf_filtered("map_matching_symbols", objfile, in.arg, << >>),
          QfForward("map_matching_symbols", objfile, in, << >>))

objfile_expand_symtabs_matching(st, objfile, in) ==
  LogThen(st, fprintf_filtered("expand_symtabs_matching", objfile,
                               in.arg, << >>),
          QfForward("expand_symtabs_matching", objfile, in, << >>))

objfile_find_pc_sect_compunit_symtab(st, objfile, in) ==
  ThenLog(st,
    LogThen(st, fprintf_filtered("find_pc_sect_compunit_symtab", objfile,
                                 in.arg, << >>),
            QfForward("find_pc_sect_compunit_symtab", objfile, in, 0)),
    "find_pc_sect_compunit_symtab", objfile, in.arg)

objfile_map_symbol_filenames(st, objfile, in) ==
  LogThen(st, fprintf_filtered("map_symbol_filenames", objfile, in.arg, << >>),
          QfForward("map_symbol_filenames", objfile, in, << >>))

objfile_find_compunit_symtab_by_address(st, objfile, in) ==
  ThenLog(st,
    LogThen(st, fprintf_filtered("find_compunit_symtab_by_address", objfile,
                                 in.arg, << >>),
            QfForward("find_compunit_symtab_by_address", objfile, in, 0)),
    "find_compunit_symtab_by_address", objfile, in.arg)

(* No line is printed by this one; without qf *symbol_found_p = false. *)
objfile_lookup_global_symbol_language(st, objfile, in) ==
  QfForward("lookup_global_symbol_language", objfile, in,
            << "language_unknown", FALSE >>)

(* The method of objfile that q names. *)
QueryFn(q, st, objfile, in) ==
  CASE q = "has_partial_symbols" ->
         objfile_has_partial_symbols(st, objfile, in)
    [] q = "find_last_source_symtab" ->
         objfile_find_last_source_symtab(st, objfile, in)
    [] q = "forget_cached_source_info" ->
         objfile_forget_cached_source_info(st, objfile, in)
    [] q = "map_symtabs_matching_filename" ->
         objfile_map_symtabs_matching_filename(st, objfile, in)
    [] q = "lookup_symbol" ->
         objfile_lookup_symbol(st, objfile, in)
    [] q = "print_stats" ->
         objfile_print_stats(st, objfile, in)
    [] q = "dump" ->
         objfile_dump(st, objfile, in)
    [] q = "expand_symtabs_for_function" ->
         objfile_expand_symtabs_for_function(st, objfile, in)
    [] q = "expand_all_symtabs" ->
         objfile_expand_all_symtabs(st, objfile, in)
    [] q = "expand_symtabs_with_fullname" ->
         objfile_expand_symtabs_with_fullname(st, objfile, in)
    [] q = "map_matching_symbols" ->
         objfile_map_matching_symbols(st, objfile, in)
    [] q = "expand_symtabs_matching" ->
         objfile_expand_symtabs_matching(st, objfile, in)
    [] q = "find_pc_sect_compunit_symtab" ->
         objfile_find_pc_sect_compunit_symtab(st, objfile, in)
    [] q = "map_symbol_filenames" ->
         objfile_map_symbol_filenames(st, objfile, in)
    [] q = "find_compunit_symtab_by_address" ->
         objfile_find_compunit_symtab_by_address(st, objfile, in)
    [] q = "lookup_global_symbol_language" ->
         objfile_lookup_global_symbol_language(st, objfile, in)

(* ------------------------------------------------------------------ *)
(* Actions                                                              *)
(* ------------------------------------------------------------------ *)
NoOutcome == [ kind |-> "none", val |-> << >> ]

LastOf(op, objfile, table, flag, slot, arg, st, events, outcome) ==
  [ op |-> op, objfile |-> objfile, table |-> table, flag |-> flag,
    slot |-> slot, arg |-> arg,
    installs |-> st.installs, uninstalls |-> st.uninstalls,
    events |-> events, outcome |-> outcome ]

(* The representative contents of the static tables of Spec. *)
TableOf(t) ==
  IF t % 2 = 1 THEN Slots \ {"sym_finish"}
  ELSE {"sym_init", "sym_read", "sym_segments", "sym_relocate", "sym_probe_fns"}

InitCommon ==
  /\ debug_symfile = FALSE
  /\ loaded = {}
  /\ sf = [o \in Objfiles |-> NullSf]
  /\ key = [o \in Objfiles |-> 0]
  /\ heap = [a \in Addrs |-> FreeData]
  /\ status = "running"
  /\ replaced = [o \in Objfiles |-> "never"]
  /\ last = [ op |-> "init", objfile |-> 0, table |-> NullSf, flag |-> FALSE,
              slot |-> "none", arg |-> 0,
              installs |-> {}, uninstalls |-> {}, events |-> << >>,
              outcome |-> NoOutcome ]

Init ==
  /\ fns = [t \in RealTables |-> TableOf(t)]
  /\ InitCommon

Apply(st) ==
  /\ st.allocOk
  /\ sf' = st.sf
  /\ key' = st.key
  /\ heap' = st.heap
  /\ status' = st.status
  /\ debug_symfile' = st.debug_symfile
  /\ fns' = st.fns

(* A new objfile is put on the list of its program space; its sf is     *)
(* still the null pointer and it has no data under the key.             *)
new_objfile(o) ==
  /\ status = "running"
  /\ o \notin loaded
  /\ loaded' = loaded \cup {o}
  /\ last' = LastOf("new_objfile", o, NullSf, FALSE, "none", 0, State,
                    << >>, NoOutcome)
  /\ UNCHANGED << debug_symfile, sf, key, heap, fns, status, replaced >>

(* A caller sets the sym_fns of a loaded objfile. *)
SetSymFns(o, newsf, a, ub) ==
  /\ status = "running"
  /\ o \in loaded
  /\ LET st == objfile_set_sym_fns(State, o, newsf, a, ub)
     IN /\ Apply(st)
        /\ last' = LastOf("objfile_set_sym_fns", o, newsf, FALSE, "none", 0,
                          st, << >>, NoOutcome)
  /\ replaced' = [replaced EXCEPT ![o] = IF debug_symfile THEN "on" ELSE "off"]
  /\ UNCHANGED loaded

(* "set debug symfile on|off": the setting is stored in debug_symfile,  *)
(* then set_debug_symfile runs.                                         *)
SetDebugSymfileCmd(v, alloc, ub) ==
  /\ status = "running"
  /\ LET st == set_debug_symfile([State EXCEPT !.debug_symfile = v],
                                 loaded, alloc, ub)
     IN /\ Apply(st)
        /\ last' = LastOf("set_debug_symfile", 0, NullSf, v, "none", 0,
                          st, << >>, NoOutcome)
  /\ UNCHANGED << loaded, replaced >>

(* The rest of gdb calls the populated slot s of a loaded objfile's     *)
(* table; throws says whether the real function, if reached, throws.    *)
Call(o, s, arg, throws, ub) ==
  /\ status = "running"
  /\ o \in loaded
  /\ Populated(State, sf[o], s)
  /\ LET e == CallThrough(State, o, s, arg, throws, ub)
     IN /\ status' = IF e.outcome.kind \in { "abort", "segv" }
                     THEN e.outcome.kind ELSE "running"
        /\ last' = LastOf("call", o, sf[o], throws, s, arg, State,
                          e.events, e.outcome)
  /\ UNCHANGED << debug_symfile, loaded, sf, key, heap, fns, replaced >>

(* The choices an operation does not consume are pinned, so that each  *)
(* outcome is generated once: the allocator is consulted only by an     *)
(* install, the null read only happens when real_sf is null.            *)
NoUB == [ segv |-> FALSE, read |-> {} ]
UBFor(p) == IF p = NullSf THEN UBOutcomes ELSE { NoUB }
UBChoices == UBOutcomes \cup { NoUB }

(* operator new returns an address not in use.  Addresses are only      *)
(* compared for equality, so of the free ones the lowest is taken; the  *)
(* address the objfile's present data has counts as free, the data      *)
(* being deleted before anything is allocated for the objfile again.    *)
NewAddr(o) ==
  LET free == { a \in AddrsFor(o) : ~heap[a].used \/ a = key[o] }
  IN { a \in free : \A b \in free : a <= b }

AllocFor(o, b) == IF b THEN NewAddr(o) ELSE { 1 }
ToInstall(v) == { o \in loaded : v /\ ~symfile_debug_installed(State, o) }

Next ==
  \/ \E o \in Objfiles : new_objfile(o)
  \/ \E o \in Objfiles, p \in {NullSf} \cup { RealSf(t) : t \in RealTables } :
       \E a \in AllocFor(o, debug_symfile), ub \in UBFor(p) :
         SetSymFns(o, p, a, ub)
  \/ \E v \in BOOLEAN :
       \E alloc \in { f \in [ToInstall(v) -> Addrs] :
                        \A o \in ToInstall(v) : f[o] \in NewAddr(o) } :
         \E ub \in { f \in [ToInstall(v) -> UBChoices] :
                       \A o \in ToInstall(v) : f[o] \in UBFor(sf[o]) } :
           SetDebugSymfileCmd(v, alloc, ub)

Spec == Init /\ [][Next]_vars

(* One objfile, over every possible content of its static table. *)
InitTables ==
  /\ \E T \in SUBSET Slots :
       fns = [t \in RealTables |-> IF t = 1 THEN T ELSE Slots \ T]
  /\ InitCommon

NextTables ==
  \/ new_objfile(1)
  \/ \E p \in {NullSf} \cup { RealSf(t) : t \in RealTables } :
       \E a \in AllocFor(1, debug_symfile), ub \in UBFor(p) :
         SetSymFns(1, p, a, ub)
  \/ \E v \in BOOLEAN :
       \E alloc \in { f \in [ToInstall(v) -> Addrs] :
                        \A o \in ToInstall(v) : f[o] \in NewAddr(o) } :
         \E ub \in { f \in [ToInstall(v) -> UBChoices] :
                       \A o \in ToInstall(v) : f[o] \in UBFor(sf[o]) } :
           SetDebugSymfileCmd(v, alloc, ub)

SpecTables == InitTables /\ [][NextTables]_vars

(* The same program with the calls through the tables observed. *)
InitCalls ==
  /\ fns = [t \in RealTables |-> IF t = 1 THEN Slots ELSE TableOf(t)]
  /\ InitCommon

UBCallFor(o, s) ==
  IF sf[o][1] = "debug" /\ s # "sym_segments"
     /\ ~Populated(State, heap[sf[o][2]].real_sf, s)
  THEN UBCalls ELSE { "segv" }

CallObjfiles == { o \in Objfiles : o <= MaxCallObjfiles }

NextCalls ==
  \/ \E o \in CallObjfiles : new_objfile(o)
  \/ \E o \in CallObjfiles,
        p \in {NullSf} \cup { RealSf(t) : t \in RealTables } :
       \E a \in AllocFor(o, debug_symfile), ub \in UBFor(p) :
         SetSymFns(o, p, a, ub)
  \/ \E v \in BOOLEAN :
       \E alloc \in { f \in [ToInstall(v) -> Addrs] :
                        \A o \in ToInstall(v) : f[o] \in NewAddr(o) } :
         \E ub \in { f \in [ToInstall(v) -> UBChoices] :
                       \A o \in ToInstall(v) : f[o] \in UBFor(sf[o]) } :
           SetDebugSymfileCmd(v, alloc, ub)
  \/ \E o \in CallObjfiles, s \in Slots :
       \E arg \in ArgsOf(s), throws \in BOOLEAN, ub \in UBCallFor(o, s) :
         Call(o, s, arg, throws, ub)

SpecCalls == InitCalls /\ [][NextCalls]_vars

(* The rest of gdb calls the method q of a loaded objfile. *)
Query(o, q, in) ==
  /\ status = "running"
  /\ o \in loaded
  /\ LET e == QueryFn(q, State, o, in)
     IN /\ status' = IF e.outcome.kind \in { "abort", "segv" }
                     THEN e.outcome.kind ELSE "running"
        /\ last' = LastOf("query", o, NullSf, FALSE, q, in, State,
                          e.events, e.outcome)
  /\ UNCHANGED << debug_symfile, loaded, sf, key, heap, fns, replaced >>

(* The inputs a method consults; those it does not are pinned. *)
NoArgQueries == { "has_partial_symbols", "find_last_source_symtab",
                  "forget_cached_source_info", "dump", "expand_all_symtabs" }

QueryInputs(q) ==
  { in \in [ qf : BOOLEAN, read : BOOLEAN, lazy : BOOLEAN, ret : 0..1,
             found : BOOLEAN, arg : Args, throws : BOOLEAN, ub : UBCalls ] :
      /\ (in.read \/ in.lazy) => q = "has_partial_symbols"
      /\ in.lazy => (in.qf /\ ~in.read)
      /\ in.ret # 0 => (in.qf /\ q \notin VoidQueries)
      /\ in.found => (in.qf /\ q = "lookup_global_symbol_language")
      /\ in.arg # 0 => q \notin NoArgQueries
      /\ in.throws => (in.qf /\ ~in.lazy)
      /\ in.ub # "segv" =>
           /\ q = "map_symtabs_matching_filename"
           /\ debug_symfile /\ in.arg = NullPath }

(* One objfile with one real table, and the methods called on it. *)
NextQueries ==
  \/ new_objfile(1)
  \/ \E a \in AllocFor(1, debug_symfile) : SetSymFns(1, RealSf(1), a, NoUB)
  \/ \E v \in BOOLEAN :
       \E alloc \in { f \in [ToInstall(v) -> Addrs] :
                        \A o \in ToInstall(v) : f[o] \in NewAddr(o) } :
         \E ub \in { f \in [ToInstall(v) -> UBChoices] :
                       \A o \in ToInstall(v) : f[o] \in UBFor(sf[o]) } :
           SetDebugSymfileCmd(v, alloc, ub)
  \/ \E q \in Queries : \E in \in QueryInputs(q) : Query(1, q, in)

SpecQueries == Init /\ [][NextQueries]_vars

(* The two static functions called on their own, whatever the state of *)
(* the objfile: install_symfile_debug_logging (o) ...                   *)
InstallDirect(o, a, ub) ==
  /\ status = "running"
  /\ o \in loaded
  /\ LET st == install_symfile_debug_logging(State, o, a, ub)
     IN /\ Apply(st)
        /\ last' = LastOf("install_symfile_debug_logging", o, sf[o], FALSE,
                          "none", 0, st, << >>, NoOutcome)
  /\ UNCHANGED << loaded, replaced >>

(* ... and uninstall_symfile_debug_logging (o). *)
UninstallDirect(o) ==
  /\ status = "running"
  /\ o \in loaded
  /\ LET st == uninstall_symfile_debug_logging(State, o)
     IN /\ Apply(st)
        /\ last' = LastOf("uninstall_symfile_debug_logging", o, sf[o], FALSE,
                          "none", 0, st, << >>, NoOutcome)
  /\ UNCHANGED << loaded, replaced >>

NextDirect ==
  \/ \E o \in CallObjfiles : new_objfile(o)
  \/ \E o \in CallObjfiles,
        p \in {NullSf} \cup { RealSf(t) : t \in RealTables } :
       \E a \in AllocFor(o, debug_symfile), ub \in UBFor(p) :
         SetSymFns(o, p, a, ub)
  \/ \E v \in BOOLEAN :
       \E alloc \in { f \in [ToInstall(v) -> Addrs] :
                        \A o \in ToInstall(v) : f[o] \in NewAddr(o) } :
         \E ub \in { f \in [ToInstall(v) -> UBChoices] :
                       \A o \in ToInstall(v) : f[o] \in UBFor(sf[o]) } :
           SetDebugSymfileCmd(v, alloc, ub)
  \/ \E o \in CallObjfiles :
       \E a \in NewAddr(o), ub \in UBFor(sf[o]) : InstallDirect(o, a, ub)
  \/ \E o \in CallObjfiles : UninstallDirect(o)

SpecDirect == Init /\ [][NextDirect]_vars

(* ------------------------------------------------------------------ *)
(* Properties                                                           *)
(* ------------------------------------------------------------------ *)
Installed(o) == symfile_debug_installed(State, o)

(* C1: between operations, the key holds data for an objfile if and     *)
(* only if objfile->sf is the debug_sf of that very data, which is not  *)
(* the table the data recorded as the real one.                         *)
C1_ShadowStateIffShadowTable ==
  \A o \in Objfiles :
    /\ key[o] # 0 => /\ heap[key[o]].used
                     /\ sf[o] = DebugSf(key[o])
                     /\ heap[key[o]].real_sf # sf[o]
    /\ sf[o][1] = "debug" => key[o] = sf[o][2]

C1_Witness ==
  /\ last.op = "objfile_set_sym_fns"
  /\ last.uninstalls # {}
  /\ \E o \in loaded : key[o] # 0 /\ sf[o] = DebugSf(key[o])
  /\ \E o \in loaded : key[o] = 0 /\ sf[o][1] # "debug"

(* C2: for every real table T and every slot s, the debug_sf installed  *)
(* over T has s null exactly when s is null in T, and holds the debug   *)
(* function of that slot exactly when s is set in T.                    *)
C2_AbsencePreserved ==
  \A o \in Objfiles :
    (sf[o][1] = "debug" /\ heap[sf[o][2]].real_sf[1] = "real") =>
      LET T == fns[heap[sf[o][2]].real_sf[2]]
          shadow == heap[sf[o][2]].debug_sf
      IN \A s \in Slots :
           /\ (s \notin T) <=> (shadow[s] = "NULL")
           /\ (s \in T) <=> (shadow[s] = debug_sym_fns[s])

C2_Witness ==
  \E o \in loaded :
    /\ sf[o][1] = "debug"
    /\ heap[sf[o][2]].real_sf[1] = "real"
    /\ fns[heap[sf[o][2]].real_sf[2]] = { "sym_read", "sym_relocate" }
    /\ heap[sf[o][2]].debug_sf["sym_read"] = "debug_sym_read"
    /\ heap[sf[o][2]].debug_sf["sym_finish"] = "NULL"
    /\ heap[sf[o][2]].debug_sf["sym_probe_fns"] = "NULL"

(* C3: after objfile_set_sym_fns (m, T2) has returned: with             *)
(* debug_symfile set, m has the debug versions installed and the        *)
(* recorded real table is T2; with debug_symfile clear, m->sf is T2 and *)
(* the key holds nothing for m.                                         *)
C3_GuardUnderReplacement ==
  (last.op = "objfile_set_sym_fns" /\ status = "running") =>
    LET m == last.objfile
        T2 == last.table
    IN IF debug_symfile
       THEN /\ Installed(m)
            /\ sf[m] = DebugSf(key[m])
            /\ heap[key[m]].real_sf = T2
       ELSE /\ sf[m] = T2
            /\ key[m] = 0

C3_Witness ==
  /\ last.op = "objfile_set_sym_fns"
  /\ status = "running"
  /\ debug_symfile
  /\ last.table[1] = "real"
  /\ \E u \in last.uninstalls :
       u[1] = last.objfile /\ u[2][1] = "real" /\ u[2] # last.table
  /\ heap[key[last.objfile]].real_sf = last.table

(* C4: after "set debug symfile on" has returned every objfile of every *)
(* program space has the debug versions installed; after "set debug     *)
(* symfile off" none has, and the key holds nothing for any of them.    *)
C4_ToggleAppliesToAll ==
  (last.op = "set_debug_symfile" /\ status = "running") =>
    /\ debug_symfile = last.flag
    /\ \A o \in loaded :
         IF last.flag
         THEN Installed(o) /\ sf[o] = DebugSf(key[o])
         ELSE ~Installed(o) /\ key[o] = 0 /\ sf[o][1] # "debug"

C4_Witness ==
  /\ last.op = "set_debug_symfile"
  /\ status = "running"
  /\ last.flag
  /\ Cardinality(loaded) >= 2
  /\ { PspaceOf(o) : o \in loaded } = program_spaces
  /\ { i[1] : i \in last.installs } = loaded
  /\ \A o \in loaded : Installed(o)

(* C5: from any state, installing the debug versions on an objfile      *)
(* whose sf is a real table T and uninstalling them at once leaves sf   *)
(* equal to T and nothing under the key; the same for "set debug        *)
(* symfile on" followed at once by "set debug symfile off".             *)
C5_RoundTripRestore ==
  status = "running" =>
    /\ \A m \in loaded :
         (~Installed(m) /\ sf[m][1] = "real") =>
           \A a \in AddrsFor(m) :
             LET st1 == install_symfile_debug_logging(State, m, a, NoUB)
                 st2 == uninstall_symfile_debug_logging(st1, m)
             IN /\ st1.sf[m] = DebugSf(a) /\ st1.key[m] = a
                /\ st2.status = "running"
                /\ st2.sf[m] = sf[m]
                /\ st2.key[m] = 0
    /\ \A alloc \in { f \in [loaded -> Addrs] :
                        \A o \in loaded : f[o] \in AddrsFor(o) } :
         LET ub == [o \in loaded |-> NoUB]
             on == set_debug_symfile([State EXCEPT !.debug_symfile = TRUE],
                                     loaded, alloc, ub)
             off == set_debug_symfile([on EXCEPT !.debug_symfile = FALSE],
                                      loaded, alloc, ub)
         IN \A m \in loaded :
              (~Installed(m) /\ sf[m][1] = "real") =>
                /\ on.sf[m] = DebugSf(alloc[m])
                /\ off.sf[m] = sf[m]
                /\ off.key[m] = 0

C5_Witness ==
  /\ last.op = "set_debug_symfile"
  /\ ~last.flag
  /\ status = "running"
  /\ \E u \in last.uninstalls :
       /\ u[2][1] = "real"
       /\ sf[u[1]] = u[2]
       /\ key[u[1]] = 0

(* The invocations of real functions among the events of a call. *)
IsReal(e) == e.kind = "real"
RealEvents(events) == SelectSeq(events, IsReal)

(* What the last call would have done on the real table directly. *)
DirectCall == RealCall(heap[last.table[2]].real_sf, last.slot,
                       last.objfile, last.arg, last.flag)

ThroughShadow(s) ==
  /\ last.op = "call"
  /\ last.slot = s
  /\ last.table[1] = "debug"
  /\ Populated(State, heap[last.table[2]].real_sf, s)

(* C6 as stated: for every slot set in the real table, segments         *)
(* included, the call through the debug table invokes the real          *)
(* function exactly once with the same arguments and has its outcome.   *)
C6_ForwardingTransparentAllSlots ==
  \A s \in Slots :
    ThroughShadow(s) =>
      /\ RealEvents(last.events) = DirectCall.events
      /\ last.outcome = DirectCall.outcome

(* C6, amended: for every slot set in the real table other than         *)
(* sym_segments, the call through the debug table invokes the real      *)
(* function exactly once with the same arguments and has its outcome    *)
(* (the same value returned, or the same error thrown).                 *)
C6_ForwardingTransparent ==
  \A s \in Slots \ { "sym_segments" } :
    ThroughShadow(s) =>
      /\ RealEvents(last.events) = DirectCall.events
      /\ last.outcome = DirectCall.outcome

C6_Witness ==
  /\ ThroughShadow("sym_relocate")
  /\ last.arg = MaxArg
  /\ last.outcome.kind = "return"
  /\ last.outcome.val = << heap[last.table[2]].real_sf[2], last.objfile, MaxArg >>
  /\ Len(RealEvents(last.events)) = 1

(* C7: in every call through a debug function, a line naming the        *)
(* operation is printed before the real function is invoked, so a call  *)
(* that ends in a throw has printed its line.                           *)
C7_LogBeforeForward ==
  (last.op = "call" /\ last.table[1] = "debug") =>
    /\ \A i \in 1..Len(last.events) :
         last.events[i].kind = "real" =>
           \E j \in 1..(i - 1) :
             /\ last.events[j].kind = "log"
             /\ last.events[j].slot = last.slot
    /\ last.outcome.kind = "throw" =>
         \E j \in 1..Len(last.events) : last.events[j].kind = "log"

(* C8 as stated: the sf of an objfile whose table has been set through  *)
(* objfile_set_sym_fns is a debug table if and only if debug_symfile    *)
(* was set at that objfile's last objfile_set_sym_fns.                  *)
C8_ShadowIffEnabledAtLastReplacement ==
  \A o \in loaded :
    replaced[o] # "never" => ((sf[o][1] = "debug") <=> (replaced[o] = "on"))

(* C8, amended: while gdb runs, the sf of an objfile whose table has    *)
(* been set through objfile_set_sym_fns is a debug table if and only if *)
(* debug_symfile is set now, whatever it was at the last replacement.   *)
C8_ShadowIffEnabledNow ==
  status = "running" =>
    \A o \in loaded :
      replaced[o] # "never" => ((sf[o][1] = "debug") <=> debug_symfile)

C8_Witness ==
  /\ status = "running"
  /\ debug_symfile
  /\ \E o \in loaded : replaced[o] = "off" /\ sf[o][1] = "debug"
  /\ \E o \in loaded : replaced[o] = "on" /\ sf[o][1] = "debug"

(* C9: "set debug symfile on" leaves every objfile that already has the *)
(* debug versions installed with the same sf, the same data under the   *)
(* key and the same recorded real table, and calls neither install nor  *)
(* uninstall on it; likewise "set debug symfile off" for every objfile  *)
(* without them.                                                        *)
C9_IdempotentToggle ==
  [][ last'.op = "set_debug_symfile" =>
        \A m \in loaded :
          (Installed(m) <=> last'.flag) =>
            /\ sf'[m] = sf[m]
            /\ key'[m] = key[m]
            /\ (key[m] # 0 => heap'[key[m]] = heap[key[m]])
            /\ \A i \in last'.installs \cup last'.uninstalls : i[1] # m
    ]_vars

C9_Witness ==
  /\ last.op = "set_debug_symfile"
  /\ last.flag
  /\ status = "running"
  /\ last.installs = {}
  /\ \E m \in loaded : Installed(m) /\ heap[key[m]].real_sf[1] = "real"

(* C10: install never proceeds on an objfile whose sf is null: no       *)
(* install sees a null sf, no data records a null real_sf, and the      *)
(* null pointer is never dereferenced.                                  *)
C10_InstallNeverCapturesNull ==
  /\ status # "segv"
  /\ \A i \in last.installs : i[2] # NullSf
  /\ \A o \in Objfiles : key[o] # 0 => heap[key[o]].real_sf # NullSf

(* C11: install_symfile_debug_logging called on an objfile that has the *)
(* debug versions installed, and uninstall_symfile_debug_logging called *)
(* on one that has not, each end in a failed gdb_assert with objfile->sf,*)
(* the key and the data under it as they were; neither returns.         *)
C11_PreconditionViolationsAbort ==
  [][ /\ (last'.op = "install_symfile_debug_logging"
          /\ Installed(last'.objfile)) =>
            /\ status' = "abort"
            /\ sf' = sf /\ key' = key /\ heap' = heap
      /\ (last'.op = "uninstall_symfile_debug_logging"
          /\ ~Installed(last'.objfile)) =>
            /\ status' = "abort"
            /\ sf' = sf /\ key' = key /\ heap' = heap
    ]_vars

C11_Witness ==
  /\ last.op = "install_symfile_debug_logging"
  /\ last.table[1] = "debug"
  /\ status = "abort"
  /\ key[last.objfile] = last.table[2]
  /\ sf[last.objfile] = last.table

(* C12: whenever the real table has sym_segments set, the debug table   *)
(* over it holds debug_sym_segments in that slot, and a call of it ends *)
(* in a failed assertion: no real function is invoked, no line is       *)
(* printed, no value is returned.                                       *)
C12_SegmentsProxyAborts ==
  /\ \A o \in Objfiles :
       (sf[o][1] = "debug" /\ Populated(State, heap[sf[o][2]].real_sf,
                                        "sym_segments")) =>
         heap[sf[o][2]].debug_sf["sym_segments"] = "debug_sym_segments"
  /\ ThroughShadow("sym_segments") =>
       /\ last.events = << >>
       /\ last.outcome = Outcome("abort", << >>)
       /\ status = "abort"

C12_Witness ==
  /\ ThroughShadow("sym_segments")
  /\ last.outcome.kind = "abort"
  /\ status = "abort"
  /\ heap[last.table[2]].debug_sf["sym_segments"] = "debug_sym_segments"

(* The calls on qf among the events of a method, and the lines printed. *)
IsQf(e) == e.kind = "qf"
IsLog(e) == e.kind = "log"
QfEvents(events) == SelectSeq(events, IsQf)
LogEvents(events) == SelectSeq(events, IsLog)

(* What the last query does, on the same input, with debug_symfile off. *)
QueryWhenOff ==
  QueryFn(last.slot, [State EXCEPT !.debug_symfile = FALSE], last.objfile,
          last.arg)

(* C13: every method of objfile that forwards to qf prints no line when *)
(* debug_symfile is off, and makes the same calls on qf and has the     *)
(* same outcome (the same value returned) whether debug_symfile is on   *)
(* or off.                                                              *)
C13_QueriesGatedNonInterfering ==
  last.op = "query" =>
    /\ ~debug_symfile => LogEvents(last.events) = << >>
    /\ QfEvents(last.events) = QfEvents(QueryWhenOff.events)
    /\ last.outcome = QueryWhenOff.outcome

(* C14: while debug_symfile is off, "set debug symfile off" having run  *)
(* after any "on", every call of a set slot through the sf of a loaded  *)
(* objfile goes to the real table itself: the real function is invoked  *)
(* once with the caller's arguments, its outcome is the call's outcome, *)
(* and no line is printed.                                              *)
C14_NoLoggingAfterDisable ==
  (last.op = "call" /\ ~debug_symfile) =>
    /\ last.table[1] = "real"
    /\ LogEvents(last.events) = << >>
    /\ last.events = RealCall(last.table, last.slot, last.objfile, last.arg,
                              last.flag).events
    /\ last.outcome = RealCall(last.table, last.slot, last.objfile, last.arg,
                               last.flag).outcome

C14_Witness ==
  /\ last.op = "call"
  /\ ~debug_symfile
  /\ replaced[last.objfile] = "on"
  /\ last.slot = "sym_read"
  /\ last.table[1] = "real"
  /\ Len(last.events) = 1

(* C15: every call through a debug function that returns has printed    *)
(* one line before the real function ran and, for the slots that return *)
(* a value (sym_relocate, sym_get_probes), one more line with the       *)
(* result after it: two lines for those, one for the others.            *)
C15_BeforeAfterPairing ==
  \A s \in Slots :
    (ThroughShadow(s) /\ last.outcome.kind = "return") =>
      /\ Len(LogEvents(last.events)) = IF s \in ValueSlots THEN 2 ELSE 1
      /\ last.events[1].kind = "log"
      /\ s \in ValueSlots =>
           /\ last.events[Len(last.events)].kind = "log"
           /\ last.events[Len(last.events)].res = last.outcome.val

(* C16: in every state an objfile has the debug versions installed only *)
(* if debug_symfile is set, and no gdb_assert has failed (the one on    *)
(* debug_symfile in objfile_set_sym_fns included); and while gdb runs   *)
(* with debug_symfile set, every loaded objfile whose sf has been set   *)
(* through objfile_set_sym_fns has them installed.                      *)
C16_InstalledTracksToggle ==
  /\ \A o \in Objfiles : Installed(o) => debug_symfile
  /\ status # "abort"
  /\ (status = "running" /\ debug_symfile) =>
       \A o \in loaded : replaced[o] # "never" => Installed(o)

C16_Witness ==
  /\ status = "running"
  /\ debug_symfile
  /\ last.op = "objfile_set_sym_fns"
  /\ \E u \in last.uninstalls : u[1] = last.objfile
  /\ Installed(last.objfile)
  /\ heap[key[last.objfile]].real_sf[1] = "real"
  /\ \E o \in loaded : replaced[o] = "off" /\ Installed(o)

(* The table an objfile effectively has: the real_sf its data records   *)
(* when the debug versions are installed, else objfile->sf itself.      *)
Effective(o) == IF Installed(o) THEN heap[key[o]].real_sf ELSE sf[o]

(* C17: for every objfile the effective table is the one most recently  *)
(* passed to objfile_set_sym_fns for it: a call of objfile_set_sym_fns  *)
(* (m, T) makes m's effective table T, every other step (toggle         *)
(* commands, calls for other objfiles) leaves it as it was; and the     *)
(* real_sf recorded in any data is never a debug table.                 *)
C17_EffectiveIsLastSupplied ==
  [][ /\ \A o \in Objfiles :
           Effective(o)' =
             IF last'.op = "objfile_set_sym_fns" /\ last'.objfile = o
             THEN last'.table ELSE Effective(o)
      /\ \A o \in Objfiles : key'[o] # 0 => heap'[key'[o]].real_sf[1] # "debug"
    ]_vars

C17_Witness ==
  /\ last.op = "set_debug_symfile"
  /\ last.flag
  /\ status = "running"
  /\ \E i \in last.installs :
       /\ replaced[i[1]] = "on"
       /\ i[2][1] = "real"
       /\ Installed(i[1])
       /\ heap[key[i[1]]].real_sf = i[2]

(* C18: in every state, if slot s of an objfile's sf is a debug         *)
(* function (sym_probe_fns: the debug probe table), then the key holds  *)
(* the data of that table for the objfile and slot s of the real_sf     *)
(* recorded there is set, so the debug function has a real function to  *)
(* call.                                                                *)
C18_ProxiesHaveTargets ==
  \A o \in Objfiles, s \in Slots :
    (sf[o][1] = "debug" /\ heap[sf[o][2]].debug_sf[s] # "NULL") =>
      /\ key[o] # 0
      /\ sf[o] = DebugSf(key[o])
      /\ Populated(State, heap[key[o]].real_sf, s)

(* C19: objfile_set_sym_fns (m, T) changes nothing but m's sf and m's   *)
(* data under the key: debug_symfile, the sf, the key and the data of   *)
(* every other objfile, and the contents of every real table, stay as   *)
(* they were; no step at all, the installs and uninstalls of the toggle *)
(* commands included, changes the contents of a real table.             *)
C19_Frame ==
  [][ /\ fns' = fns
      /\ last'.op = "objfile_set_sym_fns" =>
           /\ debug_symfile' = debug_symfile
           /\ loaded' = loaded
           /\ \A o \in Objfiles \ { last'.objfile } :
                /\ sf'[o] = sf[o]
                /\ key'[o] = key[o]
                /\ \A a \in AddrsFor(o) : heap'[a] = heap[a]
    ]_vars

C19_Witness ==
  /\ last.op = "objfile_set_sym_fns"
  /\ status = "running"
  /\ Installed(last.objfile)
  /\ \E u \in last.uninstalls : u[1] = last.objfile /\ u[2] # last.table
  /\ \E o \in loaded \ { last.objfile } :
       Installed(o) /\ heap[key[o]].real_sf[1] = "real"

(* What a method returns when nothing is forwarded. *)
DefaultOf(q) ==
  IF q \in BoolQueries THEN FALSE
  ELSE IF q \in SymtabQueries THEN 0
  ELSE IF q = "lookup_global_symbol_language"
  THEN << "language_unknown", FALSE >>
  ELSE << >>

(* C20: with qf null every method of objfile makes no call on qf and    *)
(* returns its default (false, nullptr, language_unknown with           *)
(* *symbol_found_p false), whether debug_symfile is on or off; with qf  *)
(* set, has_partial_symbols returns true without calling has_symbols    *)
(* when OBJF_PSYMTABS_READ is clear and qf can lazily read symbols, and *)
(* what qf->has_symbols returns otherwise.                              *)
C20_QueriesWithoutQf ==
  last.op = "query" =>
    /\ ~last.arg.qf =>
         /\ QfEvents(last.events) = << >>
         /\ last.outcome = Outcome("return", DefaultOf(last.slot))
    /\ (last.slot = "has_partial_symbols" /\ last.arg.qf) =>
         IF ~last.arg.read /\ last.arg.lazy
         THEN /\ last.outcome = Outcome("return", TRUE)
              /\ \A i \in 1..Len(last.events) :
                   last.events[i].slot # "has_partial_symbols"
                     \/ last.events[i].kind # "qf"
         ELSE /\ Len(SelectSeq(QfEvents(last.events),
                     LAMBDA e : e.slot = "has_partial_symbols")) = 1
              /\ last.outcome = IF last.arg.throws THEN Outcome("throw", << >>)
                                ELSE Outcome("return", last.arg.ret # 0)

====
